---- MODULE Spec2Model ----
(***************************************************************************)
(* Model of observability_utils.tracing.asserting_exporter:                *)
(* JsonObjectSpanExporter (the capture cell `top_span`, export,            *)
(* force_flush) and the asserting_span_exporter context manager.           *)
(*                                                                         *)
(* Three specifications share the state:                                   *)
(*   Spec        - sequential use: every call runs to completion           *)
(*   SpecRace    - two workers run export concurrently, statement by       *)
(*                 statement                                               *)
(*   SpecHandoff - one worker runs export while the main thread leaves the *)
(*                 asserting_span_exporter block                           *)
(***************************************************************************)
EXTENDS Integers, Sequences, FiniteSets, TLC

\* ---------------------------------------------------------------- bounds
MaxBatch == 2      \* longest batch of spans handed to export
MaxArgs == 2       \* longest *span_args tuple handed to the helper
MaxCalls == 2      \* export calls made by one worker in the concurrent specs
MaxFutures == 5    \* Future objects alive at once (heap slots)

\* ---------------------------------------------------------------- values
None == 0
FutureIds == 1..MaxFutures

Names == {"do_work", "other_name"}
Keys == {"x", "y"}

\* span.attributes: a mapping from attribute keys to values
AttributeMaps ==
  {[k \in {"x"} |-> 1], [k \in {"x"} |-> 2],
   [k \in Keys |-> IF k = "x" THEN 1 ELSE 2]}

\* ReadableSpan, as far as this module reads it: name and attributes
Spans == [name : Names, attributes : AttributeMaps]

NoSpan == [name |-> "", attributes |-> [k \in {} |-> 0]]

RECURSIVE SeqsUpTo(_, _)
SeqsUpTo(S, n) ==
  IF n = 0 THEN {<<>>}
  ELSE LET shorter == SeqsUpTo(S, n - 1)
       IN shorter \cup {Append(s, e) : s \in {t \in shorter : Len(t) = n - 1}, e \in S}

\* the batches export is called with: one or more finished spans
Batches == SeqsUpTo(Spans, MaxBatch) \ {<<>>}

\* the batches the workers of the concurrent specifications export
WorkerSpans == {s \in Spans : s.attributes = [k \in {"x"} |-> 1]}
WorkerBatches == SeqsUpTo(WorkerSpans, MaxBatch) \ {<<>>}

\* the helper's arguments
FuncNames == Names
SpanArgs == SeqsUpTo(Keys, MaxArgs)
\* the attribute keys the with block of the concurrent specification expects
MainSpanArgs == SeqsUpTo({"x"}, MaxArgs)
Timeouts == {0, 30000}

Workers == {"w1", "w2"}
Main == "main"
Threads == Workers \cup {Main}

\* ------------------------------------------- concurrent.futures.Future
FreeFuture == [state |-> "FREE", result |-> NoSpan]
NewFuture == [state |-> "PENDING", result |-> NoSpan]

\* Future.done()
Done(f) == f.state = "FINISHED"

\* Future.set_result(result): raises InvalidStateError on a finished Future
SetResult(heap, id, span) ==
  IF heap[id].state = "PENDING"
  THEN [heap |-> [heap EXCEPT ![id] = [state |-> "FINISHED", result |-> span]],
        raised |-> "none"]
  ELSE [heap |-> heap, raised |-> "InvalidStateError"]

\* Future(): the object lives in the lowest free heap slot
NewId(heap) ==
  CHOOSE i \in FutureIds :
    /\ heap[i].state = "FREE"
    /\ \A j \in FutureIds : j < i => heap[j].state # "FREE"

\* reference counting: a Future nothing refers to is freed
Collect(heap, refs) ==
  [i \in FutureIds |-> IF i \in refs THEN heap[i] ELSE FreeFuture]

\* mutant: spans[0]
LastSpanFirst(spans) == spans[1]

\* spans[-1]
LastSpan(spans) == spans[Len(spans)]

\* ---------------------------------------------------------------- state
VARIABLES
  futures,    \* heap of Future objects: FutureIds -> [state, result]
  top_span,   \* JsonObjectSpanExporter.top_span: None or a Future
  consumed,   \* history: the helper has read the result now in the cell
  call,       \* history: the most recent call made in sequential use
  pc,         \* per thread: the statement it is at
  spans_arg,  \* per worker: the batch of the export it is running
  fut,        \* per thread: the Future it loaded from self.top_span
  out,        \* per thread: how its most recent call ended
  ncalls,     \* per worker: export calls started
  expect,     \* main thread: func_name and span_args of the with block
  got,        \* main thread: the span result() returned
  exported    \* history: spans stored into a Future by a worker's export

vars == <<futures, top_span, consumed, call, pc, spans_arg, fut, out, ncalls,
          expect, got, exported>>

threadVars == <<pc, spans_arg, fut, out, ncalls, expect, got, exported>>

NoCall ==
  [op |-> "none", spans |-> <<>>, func_name |-> "", span_args |-> <<>>,
   timeout_millis |-> 0, pre_top |-> None, pre_future |-> FreeFuture,
   pre_consumed |-> FALSE, ret |-> "none", raised |-> "none"]

\* JsonObjectSpanExporter.__init__, and no thread started
Init ==
  /\ futures = [i \in FutureIds |-> FreeFuture]
  /\ top_span = None
  /\ consumed = FALSE
  /\ call = NoCall
  /\ pc = [t \in Threads |-> "idle"]
  /\ spans_arg = [w \in Workers |-> <<>>]
  /\ fut = [t \in Threads |-> None]
  /\ out = [t \in Threads |-> "none"]
  /\ ncalls = [w \in Workers |-> 0]
  /\ expect = [func_name |-> "", span_args |-> <<>>]
  /\ got = NoSpan
  /\ exported = {}

\* the cell as the specification's state machine names it
CellState(top, wasRead) ==
  IF top = None THEN "Empty" ELSE IF wasRead THEN "Consumed" ELSE "Pending"

CellFuture(heap, top) == IF top = None THEN FreeFuture ELSE heap[top]

Observe(op) ==
  [NoCall EXCEPT !.op = op, !.pre_top = top_span,
                 !.pre_future = CellFuture(futures, top_span),
                 !.pre_consumed = consumed]

\* ------------------------------------------------------- sequential use
\* mutant: the test on done() is inverted
ExportShouldStoreInverted(heap, top) == top = None \/ ~Done(heap[top])

\* mutant: a result already in the cell is kept
ExportShouldStoreOnlyEmpty(heap, top) == top = None

\* export, lines 30-31: the test and the assignment of a fresh Future
ExportShouldStore(heap, top) == top = None \/ Done(heap[top])

\* mutant: a Future already in the cell is completed again, not replaced
ExportResultReuse(heap, top, spans) ==
  IF ExportShouldStore(heap, top)
  THEN LET id == IF top = None THEN NewId(heap) ELSE top
           h1 == IF top = None THEN [heap EXCEPT ![id] = NewFuture] ELSE heap
           r == SetResult(h1, id, LastSpan(spans))
       IN [heap |-> r.heap, top |-> id, raised |-> r.raised, stored |-> TRUE]
  ELSE [heap |-> heap, top |-> top, raised |-> "none", stored |-> FALSE]

\* mutant: the fresh Future is stored without set_result
ExportResultNoSet(heap, top, spans) ==
  IF ExportShouldStore(heap, top)
  THEN LET id == NewId(heap)
       IN [heap |-> [heap EXCEPT ![id] = NewFuture], top |-> id,
           raised |-> "none", stored |-> TRUE]
  ELSE [heap |-> heap, top |-> top, raised |-> "none", stored |-> FALSE]

\* export(spans), run to completion
ExportResult(heap, top, spans) ==
  IF ExportShouldStore(heap, top)
  THEN LET id == NewId(heap)
           h1 == [heap EXCEPT ![id] = NewFuture]
           r == SetResult(h1, id, LastSpan(spans))
       IN [heap |-> r.heap, top |-> id, raised |-> r.raised, stored |-> TRUE]
  ELSE [heap |-> heap, top |-> top, raised |-> "none", stored |-> FALSE]

Export(spans) ==
  LET r == ExportResult(futures, top_span, spans)
  IN /\ futures' = Collect(r.heap, {r.top})
     /\ top_span' = r.top
     /\ consumed' = IF r.stored THEN FALSE ELSE consumed
     /\ call' = [Observe("export") EXCEPT
                   !.spans = spans,
                   !.ret = IF r.raised = "none" THEN "SUCCESS" ELSE "none",
                   !.raised = r.raised]
     /\ UNCHANGED threadVars

\* force_flush(timeout_millis)
ForceFlushReturn(timeout_millis) == "True"

\* mutant: flushing empties the cell
ForceFlushClears(timeout_millis) ==
  /\ call' = [Observe("force_flush") EXCEPT
                !.timeout_millis = timeout_millis,
                !.ret = ForceFlushReturn(timeout_millis)]
  /\ top_span' = None
  /\ futures' = Collect(futures, {})
  /\ UNCHANGED <<consumed, threadVars>>

ForceFlush(timeout_millis) ==
  /\ call' = [Observe("force_flush") EXCEPT
                !.timeout_millis = timeout_millis,
                !.ret = ForceFlushReturn(timeout_millis)]
  /\ UNCHANGED <<futures, top_span, consumed, threadVars>>

\* mutant: the loop stops one argument early
RECURSIVE AssertArgsShort(_, _, _)
AssertArgsShort(span, span_args, i) ==
  IF i >= Len(span_args) THEN "passed"
  ELSE IF span_args[i] \in DOMAIN span.attributes
       THEN AssertArgsShort(span, span_args, i + 1)
       ELSE "AssertionError"

\* lines 54-56: the assertions on the captured span
RECURSIVE AssertArgs(_, _, _)
AssertArgs(span, span_args, i) ==
  IF i > Len(span_args) THEN "passed"
  ELSE IF span_args[i] \in DOMAIN span.attributes
       THEN AssertArgs(span, span_args, i + 1)
       ELSE "AssertionError"

AssertSpan(span, func_name, span_args) ==
  IF span.name = func_name THEN AssertArgs(span, span_args, 1)
  ELSE "AssertionError"

\* mutant: an empty cell fails the block
HelperOutcomeStrict(heap, top, func_name, span_args) ==
  IF top = None THEN "AssertionError"
  ELSE IF Done(heap[top]) THEN AssertSpan(heap[top].result, func_name, span_args)
       ELSE "TimeoutError"

\* lines 52-56 with nothing running beside them: result(timeout=5.0) on a
\* Future nobody completes ends in TimeoutError
HelperOutcome(heap, top, func_name, span_args) ==
  IF top = None THEN "passed"
  ELSE IF Done(heap[top]) THEN AssertSpan(heap[top].result, func_name, span_args)
       ELSE "TimeoutError"

HelperExit(func_name, span_args) ==
  LET o == HelperOutcome(futures, top_span, func_name, span_args)
  IN /\ call' = [Observe("helper") EXCEPT
                   !.func_name = func_name, !.span_args = span_args,
                   !.ret = IF o = "passed" THEN "passed" ELSE "none",
                   !.raised = IF o = "passed" THEN "none" ELSE o]
     /\ consumed' = IF top_span # None /\ Done(futures[top_span]) THEN TRUE
                    ELSE consumed
     /\ UNCHANGED <<futures, top_span, threadVars>>

Next ==
  \/ \E spans \in Batches : Export(spans)
  \/ \E timeout_millis \in Timeouts : ForceFlush(timeout_millis)
  \/ \E func_name \in FuncNames, span_args \in SpanArgs :
       HelperExit(func_name, span_args)

Spec == Init /\ [][Next]_vars

\* ------------------------------------------------------ concurrent use
Refs(top, f) == {top} \cup {f[t] : t \in Threads}

\* a worker (a span processor's thread) calls export(spans)
ExportCall(w, spans) ==
  /\ pc[w] = "idle"
  /\ ncalls[w] < MaxCalls
  /\ pc' = [pc EXCEPT ![w] = "test_none"]
  /\ spans_arg' = [spans_arg EXCEPT ![w] = spans]
  /\ ncalls' = [ncalls EXCEPT ![w] = @ + 1]
  /\ out' = [out EXCEPT ![w] = "running"]
  /\ UNCHANGED <<futures, top_span, consumed, call, fut, expect, got, exported>>

\* line 30, left operand: self.top_span is None
ExportTestNone(w) ==
  /\ pc[w] = "test_none"
  /\ pc' = [pc EXCEPT ![w] = IF top_span = None THEN "new" ELSE "load_done"]
  /\ UNCHANGED <<futures, top_span, consumed, call, spans_arg, fut, out, ncalls,
                 expect, got, exported>>

\* line 30, right operand: self.top_span is read again
ExportLoadDone(w) ==
  /\ pc[w] = "load_done"
  /\ IF top_span = None
     THEN /\ pc' = [pc EXCEPT ![w] = "idle"]
          /\ out' = [out EXCEPT ![w] = "AttributeError"]
          /\ UNCHANGED fut
     ELSE /\ pc' = [pc EXCEPT ![w] = "test_done"]
          /\ fut' = [fut EXCEPT ![w] = top_span]
          /\ UNCHANGED out
  /\ UNCHANGED <<futures, top_span, consumed, call, spans_arg, ncalls, expect,
                 got, exported>>

\* line 30, right operand: .done() on the Future read
ExportTestDone(w) ==
  /\ pc[w] = "test_done"
  /\ pc' = [pc EXCEPT ![w] = IF Done(futures[fut[w]]) THEN "new" ELSE "return"]
  /\ fut' = [fut EXCEPT ![w] = None]
  /\ futures' = Collect(futures, Refs(top_span, fut'))
  /\ UNCHANGED <<top_span, consumed, call, spans_arg, out, ncalls, expect, got,
                 exported>>

\* line 31: self.top_span = Future()
ExportNew(w) ==
  /\ pc[w] = "new"
  /\ \E i \in FutureIds : futures[i].state = "FREE"
  /\ LET id == NewId(futures)
     IN /\ top_span' = id
        /\ futures' = Collect([futures EXCEPT ![id] = NewFuture], Refs(id, fut))
  /\ pc' = [pc EXCEPT ![w] = "load_set"]
  /\ UNCHANGED <<consumed, call, spans_arg, fut, out, ncalls, expect, got,
                 exported>>

\* line 32: self.top_span is read again
ExportLoadSet(w) ==
  /\ pc[w] = "load_set"
  /\ fut' = [fut EXCEPT ![w] = top_span]
  /\ pc' = [pc EXCEPT ![w] = "set"]
  /\ UNCHANGED <<futures, top_span, consumed, call, spans_arg, out, ncalls,
                 expect, got, exported>>

\* mutant: the Future read is left without a result
ExportSetSkipped(w) ==
  /\ pc[w] = "set"
  /\ fut' = [fut EXCEPT ![w] = None]
  /\ futures' = Collect(futures, Refs(top_span, fut'))
  /\ pc' = [pc EXCEPT ![w] = "return"]
  /\ UNCHANGED <<top_span, consumed, call, spans_arg, out, ncalls, expect, got,
                 exported>>

\* line 32: .set_result(spans[-1]) on the Future read
ExportSet(w) ==
  /\ pc[w] = "set"
  /\ LET r == SetResult(futures, fut[w], LastSpan(spans_arg[w]))
     IN /\ fut' = [fut EXCEPT ![w] = None]
        /\ futures' = Collect(r.heap, Refs(top_span, fut'))
        /\ IF r.raised = "none"
           THEN /\ pc' = [pc EXCEPT ![w] = "return"]
                /\ exported' = exported \cup {spans_arg[w][Len(spans_arg[w])]}
                /\ UNCHANGED out
           ELSE /\ pc' = [pc EXCEPT ![w] = "idle"]
                /\ out' = [out EXCEPT ![w] = r.raised]
                /\ UNCHANGED exported
  /\ UNCHANGED <<top_span, consumed, call, spans_arg, ncalls, expect, got>>

\* line 33: return SpanExportResult.SUCCESS
ExportReturn(w) ==
  /\ pc[w] = "return"
  /\ out' = [out EXCEPT ![w] = "SUCCESS"]
  /\ pc' = [pc EXCEPT ![w] = "idle"]
  /\ UNCHANGED <<futures, top_span, consumed, call, spans_arg, fut, ncalls,
                 expect, got, exported>>

\* the statements of a running export call
ExportStep(w) ==
  \/ ExportTestNone(w)
  \/ ExportLoadDone(w)
  \/ ExportTestDone(w)
  \/ ExportNew(w)
  \/ ExportLoadSet(w)
  \/ ExportSet(w)
  \/ ExportReturn(w)

\* with asserting_span_exporter(exporter, func_name, *span_args): up to the yield
HelperEnter(func_name, span_args) ==
  /\ pc[Main] = "idle"
  /\ pc' = [pc EXCEPT ![Main] = "yield"]
  /\ expect' = [func_name |-> func_name, span_args |-> span_args]
  /\ out' = [out EXCEPT ![Main] = "running"]
  /\ fut' = [fut EXCEPT ![Main] = None]
  /\ got' = NoSpan
  /\ futures' = Collect(futures, Refs(top_span, fut'))
  /\ UNCHANGED <<top_span, consumed, call, spans_arg, ncalls, exported>>

\* line 52: exporter.top_span is not None
HelperTest ==
  /\ pc[Main] = "yield"
  /\ IF top_span = None
     THEN /\ pc' = [pc EXCEPT ![Main] = "idle"]
          /\ out' = [out EXCEPT ![Main] = "passed"]
     ELSE /\ pc' = [pc EXCEPT ![Main] = "load"]
          /\ UNCHANGED out
  /\ UNCHANGED <<futures, top_span, consumed, call, spans_arg, fut, ncalls,
                 expect, got, exported>>

\* line 53: exporter.top_span is read again
HelperLoad ==
  /\ pc[Main] = "load"
  /\ top_span # None
  /\ fut' = [fut EXCEPT ![Main] = top_span]
  /\ pc' = [pc EXCEPT ![Main] = "wait"]
  /\ UNCHANGED <<futures, top_span, consumed, call, spans_arg, out, ncalls,
                 expect, got, exported>>

\* line 53: .result(timeout=5.0) returns once the Future is done
HelperResult ==
  /\ pc[Main] = "wait"
  /\ Done(futures[fut[Main]])
  /\ got' = futures[fut[Main]].result
  /\ pc' = [pc EXCEPT ![Main] = "assert"]
  /\ UNCHANGED <<futures, top_span, consumed, call, spans_arg, fut, out, ncalls,
                 expect, exported>>

\* line 53: .result(timeout=5.0) gives up; the 5 seconds may elapse at any
\* moment the Future is not done
HelperTimeout ==
  /\ pc[Main] = "wait"
  /\ ~Done(futures[fut[Main]])
  /\ out' = [out EXCEPT ![Main] = "TimeoutError"]
  /\ pc' = [pc EXCEPT ![Main] = "idle"]
  /\ UNCHANGED <<futures, top_span, consumed, call, spans_arg, fut, ncalls,
                 expect, got, exported>>

\* lines 54-56
HelperAssert ==
  /\ pc[Main] = "assert"
  /\ out' = [out EXCEPT ![Main] = AssertSpan(got, expect.func_name, expect.span_args)]
  /\ pc' = [pc EXCEPT ![Main] = "idle"]
  /\ UNCHANGED <<futures, top_span, consumed, call, spans_arg, fut, ncalls,
                 expect, got, exported>>

\* two workers export on the same exporter
NextRace ==
  \/ \E w \in Workers, spans \in WorkerBatches : ExportCall(w, spans)
  \/ \E w \in Workers : ExportStep(w)

SpecRace == Init /\ [][NextRace]_vars

\* one worker exports, the main thread leaves the with block
Producer == "w1"

NextHandoff ==
  \/ \E spans \in WorkerBatches : ExportCall(Producer, spans)
  \/ ExportStep(Producer)
  \/ \E func_name \in FuncNames, span_args \in MainSpanArgs :
       HelperEnter(func_name, span_args)
  \/ HelperTest
  \/ HelperLoad
  \/ HelperResult
  \/ HelperTimeout
  \/ HelperAssert

\* a started export call keeps running; a blocked result() returns once the
\* Future is done; nothing forces a call to start or the timeout to elapse
HandoffFairness ==
  /\ WF_vars(ExportStep(Producer))
  /\ WF_vars(HelperTest)
  /\ WF_vars(HelperLoad)
  /\ WF_vars(HelperResult)
  /\ WF_vars(HelperAssert)

SpecHandoff == Init /\ [][NextHandoff]_vars /\ HandoffFairness

\* ================================================================ claims
LastOf(batch) == batch[Len(batch)]

CellHolds(span) ==
  /\ top_span # None
  /\ Done(futures[top_span])
  /\ futures[top_span].result = span

PreState == CellState(call.pre_top, call.pre_consumed)

\* C1: an export called while the cell is empty leaves a completed result in
\* the cell whose value is the last span of the batch
C1_ExportIntoEmptyStoresLast ==
  (call.op = "export" /\ call.pre_top = None) => CellHolds(LastOf(call.spans))

C1_Witness ==
  /\ call.op = "export"
  /\ call.pre_top = None
  /\ Len(call.spans) = 2
  /\ call.spans[1] # call.spans[2]
  /\ CellHolds(call.spans[2])

\* C2 as claimed: an export called while the cell holds a result the helper
\* has not read leaves the cell holding that earlier result
C2_UnreadResultKept ==
  (call.op = "export" /\ PreState = "Pending") => CellHolds(call.pre_future.result)

\* C2 as amended: an export called while the cell holds a result the helper
\* has not read overwrites it; the cell then holds the last span of the new
\* batch
C2_UnreadResultOverwritten ==
  (call.op = "export" /\ PreState = "Pending") => CellHolds(LastOf(call.spans))

C2_Witness ==
  /\ call.op = "export"
  /\ PreState = "Pending"
  /\ Done(call.pre_future)
  /\ call.pre_future.result # LastOf(call.spans)
  /\ CellHolds(LastOf(call.spans))

\* C3: once the helper has read the captured result the cell counts as
\* consumed, and the next export overwrites it with the last span of its batch
C3_ExportAfterReadOverwrites ==
  /\ (call.op = "helper" /\ call.pre_top # None /\ call.raised # "TimeoutError")
        => (consumed /\ top_span = call.pre_top)
  /\ (call.op = "export" /\ PreState = "Consumed")
        => (CellHolds(LastOf(call.spans)) /\ ~consumed)

C3_Witness ==
  /\ call.op = "export"
  /\ PreState = "Consumed"
  /\ call.pre_future.result # LastOf(call.spans)
  /\ CellHolds(LastOf(call.spans))
  /\ ~consumed

\* C4: in sequential use export returns SUCCESS and raises nothing, whatever
\* the cell held before
C4_ExportAlwaysSucceeds ==
  call.op = "export" => (call.ret = "SUCCESS" /\ call.raised = "none")

C4_Witness ==
  /\ call.op = "export"
  /\ PreState = "Consumed"
  /\ Len(call.spans) = 1
  /\ call.ret = "SUCCESS"

\* C5: force_flush returns True for every timeout and leaves the cell as it
\* found it
C5_ForceFlushTrueAndFrame ==
  call.op = "force_flush" =>
    /\ call.ret = "True"
    /\ top_span = call.pre_top
    /\ CellFuture(futures, top_span) = call.pre_future

C5_Witness ==
  /\ call.op = "force_flush"
  /\ call.timeout_millis = 0
  /\ call.pre_top # None
  /\ call.ret = "True"
  /\ CellHolds(call.pre_future.result)

\* C6: leaving the block while the cell is still empty checks nothing and
\* raises nothing, whatever name and attribute keys are expected
C6_EmptyCellSoftPass ==
  (call.op = "helper" /\ call.pre_top = None) =>
    (call.ret = "passed" /\ call.raised = "none")

C6_Witness ==
  /\ call.op = "helper"
  /\ call.pre_top = None
  /\ call.func_name = "do_work"
  /\ Len(call.span_args) = 2
  /\ call.ret = "passed"

\* C7: with a completed span in the cell the block passes exactly when the
\* span's name is the expected name and every expected key is among the
\* span's attribute keys; otherwise it raises AssertionError
C7_HelperPassesIffNameAndKeys ==
  (call.op = "helper" /\ call.pre_top # None /\ Done(call.pre_future)) =>
    LET span == call.pre_future.result
        matches ==
          /\ span.name = call.func_name
          /\ \A i \in 1..Len(call.span_args) :
               call.span_args[i] \in DOMAIN span.attributes
    IN /\ matches <=> (call.ret = "passed" /\ call.raised = "none")
       /\ ~matches <=> call.raised = "AssertionError"

C7_Witness ==
  /\ call.op = "helper"
  /\ call.pre_top # None
  /\ call.pre_future.result.name = "do_work"
  /\ call.pre_future.result.attributes = [k \in Keys |-> IF k = "x" THEN 1 ELSE 2]
  /\ call.func_name = "do_work"
  /\ call.span_args = <<"x">>
  /\ call.ret = "passed"

\* C8 as claimed: with exports racing, no call raises, and when both workers
\* have returned the cell holds a completed result that one of them exported
C8_RaceNeverRaises ==
  /\ \A w \in Workers : out[w] \in {"none", "running", "SUCCESS"}
  /\ (\A w \in Workers : pc[w] = "idle" /\ out[w] = "SUCCESS") =>
        (top_span # None /\ Done(futures[top_span])
           /\ futures[top_span].result \in exported)

\* C9 as claimed: a block that ends in TimeoutError observed a Future that
\* never becomes completed
C9_TimeoutOnlyIfNeverCompleted ==
  out[Main] = "TimeoutError" => ~Done(futures[fut[Main]])

\* C9 as amended: the main thread either sees an empty cell and passes, or
\* sees a Future and then leaves its wait, with the span an export stored in
\* that Future or with a TimeoutError; the TimeoutError only when that Future
\* was not completed at the moment the wait gave up
C9_HandoffOrTimeout ==
  /\ [](pc[Main] = "assert" =>
          /\ Done(futures[fut[Main]])
          /\ got = futures[fut[Main]].result
          /\ got \in exported)
  /\ []((out[Main] = "passed" /\ fut[Main] = None) => got = NoSpan)
  /\ [][(pc[Main] = "wait" /\ out'[Main] = "TimeoutError")
           => ~Done(futures[fut[Main]])]_vars
  /\ (pc[Main] = "wait" ~> pc[Main] # "wait")

C9_Witness ==
  /\ pc[Main] = "assert"
  /\ pc[Producer] = "return"
  /\ ncalls[Producer] = 1
  /\ got = LastOf(spans_arg[Producer])
  /\ Len(spans_arg[Producer]) = 2
  /\ spans_arg[Producer][1] # got

\* C10: in sequential use the cell is empty or holds a completed Future,
\* never an uncompleted one; once filled it is never empty again; the block's
\* wait never ends in TimeoutError
C10_CellEmptyOrDone ==
  /\ top_span = None \/ Done(futures[top_span])
  /\ call.pre_top # None => top_span # None
  /\ call.op = "export" => top_span # None
  /\ call.op = "helper" => call.raised # "TimeoutError"

C10_Witness ==
  /\ call.op = "helper"
  /\ call.pre_top # None
  /\ Done(call.pre_future)
  /\ call.raised = "AssertionError"
  /\ top_span = call.pre_top

====
